---------------------------- MODULE Spec2Model ----------------------------
(***************************************************************************)
(* A model of libs/pageserver_api/src/shard.rs: the shard identifier types *)
(* (ShardNumber, ShardCount, ShardIndex, TenantShardId, ShardIdentity),    *)
(* their textual and binary encodings, and the validated constructor.      *)
(*                                                                         *)
(* Strings are sequences of bytes (ASCII codes), as the source reads them  *)
(* through s.len() and s.as_bytes(); byte buffers are sequences of         *)
(* integers in 0..255; a Result is a record with an ok flag.               *)
(***************************************************************************)
EXTENDS Integers, Sequences, FiniteSets, TLC

VARIABLES
    pc,      \* the operation that produced the current state
    tsid,    \* the TenantShardId at hand
    idx,     \* the ShardIndex at hand
    text,    \* the string at hand (an encoding, or a raw input)
    suffix,  \* the last result of ShardIndex::get_suffix
    packed,  \* the byte buffer at hand (an encoding, or a raw input)
    res,     \* the Result of the last fallible operation
    reenc,   \* the string a parsed value was formatted to again
    range,   \* the last result of TenantShardId::tenant_range
    args     \* the arguments of the last constructor or query call

vars == <<pc, tsid, idx, text, suffix, packed, res, reenc, range, args>>

---------------------------------------------------------------------------
(* Bounds of the model *)

\* tenant identifiers 0..MaxTenant are drawn (see TenantIdOf)
MaxTenant == 1

\* raw input strings of every length 0..MaxTextLen are drawn
MaxTextLen == 40

\* stripe sizes 0..MaxSmallStripe are drawn, beside the default and a large one
MaxSmallStripe == 2

\* shard bytes 0..MaxPairByte are drawn, beside the nibble and range edges,
\* where two ids are formatted side by side
MaxPairByte == 2

---------------------------------------------------------------------------
(* Program constants *)

\* u8::MAX, the value of ShardCount::MAX and ShardNumber::MAX
U8_MAX == 255

\* const LAYOUT_V1: ShardLayout = ShardLayout(1)
LAYOUT_V1 == 1

\* const DEFAULT_STRIPE_SIZE = ShardStripeSize(256 * 1024 / 8)
DEFAULT_STRIPE_SIZE == (256 * 1024) \div 8

U8 == 0..U8_MAX

---------------------------------------------------------------------------
(* Results *)

Ok(v) == [ok |-> TRUE, val |-> v]

Err(e) == [ok |-> FALSE, err |-> e]

\* hex::FromHexError
InvalidHexCharacter(c, index) == [kind |-> "InvalidHexCharacter", c |-> c, index |-> index]

OddLength == [kind |-> "OddLength"]

InvalidStringLength == [kind |-> "InvalidStringLength"]

\* the state of res before any fallible operation has run
NoResult == Err([kind |-> "none"])

---------------------------------------------------------------------------
(* Characters and hexadecimal text *)

\* the ASCII code of each character the model writes or reads
Chr(c) ==
    CASE c = "0" -> 48 [] c = "1" -> 49 [] c = "2" -> 50 [] c = "3" -> 51
      [] c = "4" -> 52 [] c = "5" -> 53 [] c = "6" -> 54 [] c = "7" -> 55
      [] c = "8" -> 56 [] c = "9" -> 57
      [] c = "a" -> 97 [] c = "b" -> 98 [] c = "c" -> 99 [] c = "d" -> 100
      [] c = "e" -> 101 [] c = "f" -> 102
      [] c = "A" -> 65 [] c = "B" -> 66 [] c = "C" -> 67 [] c = "D" -> 68
      [] c = "E" -> 69 [] c = "F" -> 70
      [] c = "-" -> 45 [] c = " " -> 32 [] c = "x" -> 120

\* a string literal, given character by character, as bytes
Str(chars) == [i \in 1..Len(chars) |-> Chr(chars[i])]

\* the characters the formatters write and the decoder compares with
CH_0 == Chr("0")

CH_9 == Chr("9")

CH_a == Chr("a")

CH_f == Chr("f")

CH_A == Chr("A")

CH_F == Chr("F")

\* the separator of "{}-{:02x}{:02x}"
DASH == Chr("-")

\* the digit table of the lowercase hex formatter: b"0123456789abcdef"
HexCharLower(nibble) ==
    IF nibble < 10 THEN CH_0 + nibble ELSE CH_a + (nibble - 10)

\* the digits of {:x} for an unsigned value: no leading zeros, at least one digit
RECURSIVE LowerHex(_)
LowerHex(v) ==
    IF v < 16 THEN <<HexCharLower(v)>>
    ELSE LowerHex(v \div 16) \o <<HexCharLower(v % 16)>>

\* zero padding to a minimum width (the 0w flag of a format spec)
RECURSIVE ZeroPad(_, _)
ZeroPad(s, width) ==
    IF Len(s) >= width THEN s ELSE ZeroPad(<<CH_0>> \o s, width)

\* format!("{:02x}", b) for a u8
Fmt02x(b) == ZeroPad(LowerHex(b), 2)

\* hex::encode: two lowercase hex digits per byte
RECURSIVE HexEncode(_)
HexEncode(bytes) ==
    IF bytes = <<>> THEN <<>>
    ELSE <<HexCharLower(Head(bytes) \div 16), HexCharLower(Head(bytes) % 16)>>
            \o HexEncode(Tail(bytes))

\* val(c, idx) of the hex crate: the value of one hex digit, either case; -1 stands for
\* Err(InvalidHexCharacter)
HexVal(c) ==
    IF c >= CH_A /\ c <= CH_F THEN c - CH_A + 10
    ELSE IF c >= CH_a /\ c <= CH_f THEN c - CH_a + 10
    ELSE IF c >= CH_0 /\ c <= CH_9 THEN c - CH_0
    ELSE -1

\* the loop of hex::decode_to_slice from byte i (counted from 0) on: each
\* output byte is val(data[2i]) << 4 | val(data[2i + 1]), and the first
\* character that is no hex digit ends the loop with an error
RECURSIVE DecodeLoop(_, _, _, _)
DecodeLoop(data, i, outLen, out) ==
    IF i = outLen THEN Ok(out)
    ELSE LET hi == HexVal(data[2 * i + 1])
             lo == HexVal(data[2 * i + 2])
         IN  IF hi = -1 THEN Err(InvalidHexCharacter(data[2 * i + 1], 2 * i))
             ELSE IF lo = -1 THEN Err(InvalidHexCharacter(data[2 * i + 2], 2 * i + 1))
             ELSE DecodeLoop(data, i + 1, outLen, Append(out, hi * 16 + lo))

\* hex::decode_to_slice(data, out) with out.len() = outLen
decode_to_slice(data, outLen) ==
    IF Len(data) % 2 # 0 THEN Err(OddLength)
    ELSE IF Len(data) \div 2 # outLen THEN Err(InvalidStringLength)
    ELSE DecodeLoop(data, 0, outLen, <<>>)

---------------------------------------------------------------------------
(* utils::id::TenantId: sixteen raw bytes with a 32-character hex form *)

\* EXAMPLE_TENANT_ID of the tests, as bytes
ExampleTenantId ==
    <<31, 53, 157, 214, 37, 229, 25, 161, 164, 232, 215, 80, 150, 144, 246, 252>>

\* the tenant identifiers the model draws: the example of the tests, its successor
\* in the last byte, all zeros, all ones, and further variations of the example
TenantIdOf(k) ==
    CASE k = 0 -> ExampleTenantId
      [] k = 1 -> [ExampleTenantId EXCEPT ![16] = @ + 1]
      [] k = 2 -> [i \in 1..16 |-> 0]
      [] k = 3 -> [i \in 1..16 |-> U8_MAX]
      [] OTHER -> [i \in 1..16 |-> (ExampleTenantId[i] + k * i) % 256]

TenantIds == {TenantIdOf(k) : k \in 0..MaxTenant}

\* Display for TenantId
TenantId_fmt(id) == HexEncode(id)

\* TenantId::from_hex
TenantId_from_hex(s) == decode_to_slice(s, 16)

\* TenantId::from_str
TenantId_from_str(s) == TenantId_from_hex(s)

\* TenantId::from([u8; 16])
TenantId_from(bytes) == bytes

\* TenantId::as_arr
TenantId_as_arr(id) == id

---------------------------------------------------------------------------
(* TenantShardId *)

MkTenantShardId(t, n, c) == [tenant_id |-> t, shard_number |-> n, shard_count |-> c]

\* the state of tsid before any has been made
NoTenantShardId == MkTenantShardId(<<>>, 0, 0)

\* TenantShardId::unsharded
unsharded(tenant_id) == MkTenantShardId(tenant_id, 0, 0)

\* TenantShardId::shard_slug
shard_slug(self) == Fmt02x(self.shard_number) \o Fmt02x(self.shard_count)

\* a Display without the legacy case
TenantShardId_fmt_always_suffix(self) ==
    TenantId_fmt(self.tenant_id) \o <<DASH>>
        \o Fmt02x(self.shard_number) \o Fmt02x(self.shard_count)

\* a Display that writes the count before the number
TenantShardId_fmt_count_first(self) ==
    IF self.shard_count # 0
    THEN TenantId_fmt(self.tenant_id) \o <<DASH>>
            \o Fmt02x(self.shard_count) \o Fmt02x(self.shard_number)
    ELSE TenantId_fmt(self.tenant_id)

\* a Display that takes the legacy case by the number instead of the count
TenantShardId_fmt_legacy_by_number(self) ==
    IF self.shard_number # 0
    THEN TenantId_fmt(self.tenant_id) \o <<DASH>>
            \o Fmt02x(self.shard_number) \o Fmt02x(self.shard_count)
    ELSE TenantId_fmt(self.tenant_id)

\* impl Display for TenantShardId
TenantShardId_fmt(self) ==
    IF self.shard_count # 0
    THEN TenantId_fmt(self.tenant_id) \o <<DASH>>
            \o Fmt02x(self.shard_number) \o Fmt02x(self.shard_count)
    ELSE TenantId_fmt(self.tenant_id)

\* a parse that takes any string of 37 characters or more, reading its first 37
TenantShardId_from_str_long(s) ==
    IF Len(s) = 32
    THEN LET t == TenantId_from_str(s)
         IN  IF t.ok THEN Ok(MkTenantShardId(t.val, 0, 0)) ELSE t
    ELSE IF Len(s) >= 37
    THEN LET t == TenantId_from_hex(SubSeq(s, 1, 32))
         IN  IF ~t.ok THEN t
             ELSE LET shard_parts == decode_to_slice(SubSeq(s, 34, 37), 2)
                  IN  IF ~shard_parts.ok THEN shard_parts
                      ELSE Ok(MkTenantShardId(t.val, shard_parts.val[1],
                                              shard_parts.val[2]))
    ELSE Err(InvalidStringLength)

\* impl FromStr for TenantShardId
TenantShardId_from_str(s) ==
    IF Len(s) = 32
    THEN LET t == TenantId_from_str(s)
         IN  IF t.ok THEN Ok(MkTenantShardId(t.val, 0, 0)) ELSE t
    ELSE IF Len(s) = 37
    THEN LET t == TenantId_from_hex(SubSeq(s, 1, 32))
         IN  IF ~t.ok THEN t
             ELSE LET shard_parts == decode_to_slice(SubSeq(s, 34, 37), 2)
                  IN  IF ~shard_parts.ok THEN shard_parts
                      ELSE Ok(MkTenantShardId(t.val, shard_parts.val[1],
                                              shard_parts.val[2]))
    ELSE Err(InvalidStringLength)

\* a conversion that reads the count before the number
TenantShardId_from_count_first(b) ==
    LET tenant_id_bytes == SubSeq(b, 1, 16)
    IN  MkTenantShardId(TenantId_from(tenant_id_bytes), b[18], b[17])

\* impl From<[u8; 18]> for TenantShardId
TenantShardId_from(b) ==
    LET tenant_id_bytes == SubSeq(b, 1, 16)
    IN  MkTenantShardId(TenantId_from(tenant_id_bytes), b[17], b[18])

\* the derived Ord of [u8; 16], of TenantId: -1, 0 or 1
RECURSIVE CmpBytes(_, _)
CmpBytes(a, b) ==
    IF a = <<>> \/ b = <<>>
    THEN (IF a = b THEN 0 ELSE IF a = <<>> THEN -1 ELSE 1)
    ELSE IF Head(a) < Head(b) THEN -1
    ELSE IF Head(a) > Head(b) THEN 1
    ELSE CmpBytes(Tail(a), Tail(b))

CmpInt(a, b) == IF a < b THEN -1 ELSE IF a > b THEN 1 ELSE 0

\* #[derive(PartialOrd, Ord)] on TenantShardId: the fields in declaration order
TenantShardId_cmp(a, b) ==
    LET t == CmpBytes(a.tenant_id, b.tenant_id)
    IN  IF t # 0 THEN t
        ELSE IF a.shard_number # b.shard_number
        THEN CmpInt(a.shard_number, b.shard_number)
        ELSE CmpInt(a.shard_count, b.shard_count)

\* a range whose upper bound leaves the count at zero
tenant_range_max_number_only(tenant_id) ==
    [start |-> MkTenantShardId(tenant_id, 0, 0),
     end   |-> MkTenantShardId(tenant_id, U8_MAX, 0)]

\* TenantShardId::tenant_range
tenant_range(tenant_id) ==
    [start |-> MkTenantShardId(tenant_id, 0, 0),
     end   |-> MkTenantShardId(tenant_id, U8_MAX, U8_MAX)]

\* RangeInclusive::contains under the derived ordering
RangeContains(r, x) ==
    /\ TenantShardId_cmp(r.start, x) <= 0
    /\ TenantShardId_cmp(x, r.end) <= 0

\* a binary form that shortens a legacy id to its sixteen tenant bytes
TenantShardId_serialize_short_legacy(self, is_human_readable) ==
    IF is_human_readable
    THEN [str |-> TenantShardId_fmt(self)]
    ELSE IF self.shard_count = 0
    THEN [bytes |-> TenantId_as_arr(self.tenant_id)]
    ELSE [bytes |-> TenantId_as_arr(self.tenant_id)
                        \o <<self.shard_number, self.shard_count>>]

\* impl Serialize for TenantShardId: a string for a human-readable serializer,
\* else the eighteen bytes of packed
TenantShardId_serialize(self, is_human_readable) ==
    IF is_human_readable
    THEN [str |-> TenantShardId_fmt(self)]
    ELSE LET zeroed  == [i \in 1..18 |-> 0]
             packed0 == [i \in 1..18 |->
                            IF i <= 16 THEN TenantId_as_arr(self.tenant_id)[i]
                            ELSE zeroed[i]]
             packed1 == [packed0 EXCEPT ![17] = self.shard_number]
             packed2 == [packed1 EXCEPT ![18] = self.shard_count]
         IN  [bytes |-> packed2]

\* the error E::custom makes of a parse error
Custom(e) == [kind |-> "custom", of |-> e]

\* a sequence that ends before the array is full
InvalidLength(n) == [kind |-> "invalid_length", len |-> n]

\* impl Deserialize for TenantShardId: visit_str of a human-readable
\* deserializer, else visit_seq of a tuple of 18
TenantShardId_deserialize(input, is_human_readable) ==
    IF is_human_readable
    THEN LET r == TenantShardId_from_str(input.str)
         IN  IF r.ok THEN r ELSE Err(Custom(r.err))
    ELSE IF Len(input.bytes) < 18 THEN Err(InvalidLength(Len(input.bytes)))
    ELSE Ok(TenantShardId_from(SubSeq(input.bytes, 1, 18)))

---------------------------------------------------------------------------
(* ShardIndex *)

\* ShardIndex::new
ShardIndex_new(number, count) == [shard_number |-> number, shard_count |-> count]

\* ShardIndex::unsharded
ShardIndex_unsharded == [shard_number |-> 0, shard_count |-> 0]

\* a test of the count alone
is_unsharded_count_only(self) == self.shard_count = 0

\* ShardIndex::is_unsharded
is_unsharded(self) == self.shard_number = 0 /\ self.shard_count = 0

\* ShardIndex::get_suffix
get_suffix(self) ==
    IF is_unsharded(self) THEN <<>>
    ELSE <<DASH>> \o Fmt02x(self.shard_number) \o Fmt02x(self.shard_count)

\* a Display that writes the count before the number
ShardIndex_fmt_count_first(self) == Fmt02x(self.shard_count) \o Fmt02x(self.shard_number)

\* impl Display for ShardIndex
ShardIndex_fmt(self) == Fmt02x(self.shard_number) \o Fmt02x(self.shard_count)

\* impl FromStr for ShardIndex
ShardIndex_from_str(s) ==
    IF Len(s) = 4
    THEN LET shard_parts == decode_to_slice(s, 2)
         IN  IF ~shard_parts.ok THEN shard_parts
             ELSE Ok(ShardIndex_new(shard_parts.val[1], shard_parts.val[2]))
    ELSE Err(InvalidStringLength)

\* impl From<[u8; 2]> for ShardIndex
ShardIndex_from(b) == [shard_number |-> b[1], shard_count |-> b[2]]

\* impl Serialize for ShardIndex
ShardIndex_serialize(self, is_human_readable) ==
    IF is_human_readable
    THEN [str |-> ShardIndex_fmt(self)]
    ELSE LET packed0 == [i \in 1..2 |-> 0]
             packed1 == [packed0 EXCEPT ![1] = self.shard_number]
             packed2 == [packed1 EXCEPT ![2] = self.shard_count]
         IN  [bytes |-> packed2]

\* impl Deserialize for ShardIndex
ShardIndex_deserialize(input, is_human_readable) ==
    IF is_human_readable
    THEN LET r == ShardIndex_from_str(input.str)
         IN  IF r.ok THEN r ELSE Err(Custom(r.err))
    ELSE IF Len(input.bytes) < 2 THEN Err(InvalidLength(Len(input.bytes)))
    ELSE Ok(ShardIndex_from(SubSeq(input.bytes, 1, 2)))

---------------------------------------------------------------------------
(* ShardIdentity *)

\* enum ShardConfigError
InvalidCount == "InvalidCount"

InvalidNumber == "InvalidNumber"

InvalidStripeSize == "InvalidStripeSize"

\* ShardIdentity::unsharded
ShardIdentity_unsharded ==
    [number |-> 0, count |-> 0, layout |-> LAYOUT_V1,
     stripe_size |-> DEFAULT_STRIPE_SIZE]

\* ShardIdentity::is_unsharded
ShardIdentity_is_unsharded(self) == self.number = 0 /\ self.count = 0

\* a constructor that lets number = count through
ShardIdentity_new_number_le_count(number, count, stripe_size) ==
    IF count = 0 THEN Err(InvalidCount)
    ELSE IF number > count THEN Err(InvalidNumber)
    ELSE IF stripe_size = 0 THEN Err(InvalidStripeSize)
    ELSE Ok([number |-> number, count |-> count, layout |-> LAYOUT_V1,
             stripe_size |-> stripe_size])

\* ShardIdentity::new; count.0 - 1 is u8 arithmetic, reached only with count >= 1
ShardIdentity_new(number, count, stripe_size) ==
    IF count = 0 THEN Err(InvalidCount)
    ELSE IF number > (count - 1) % 256 THEN Err(InvalidNumber)
    ELSE IF stripe_size = 0 THEN Err(InvalidStripeSize)
    ELSE Ok([number |-> number, count |-> count, layout |-> LAYOUT_V1,
             stripe_size |-> stripe_size])

\* the stripe sizes the model draws: the small ones, the default, and the
\* largest value TLC's integers hold (u32 goes on to 2^32 - 1)
StripeSizes ==
    (0..MaxSmallStripe) \cup {DEFAULT_STRIPE_SIZE, 2^30 + (2^30 - 1)}

---------------------------------------------------------------------------
(* The state before any operation *)

InitStart ==
    /\ pc = "start"
    /\ tsid = NoTenantShardId
    /\ idx = ShardIndex_unsharded
    /\ text = <<>>
    /\ suffix = <<>>
    /\ packed = <<>>
    /\ res = NoResult
    /\ reenc = <<>>
    /\ range = [start |-> NoTenantShardId, end |-> NoTenantShardId]
    /\ args = <<>>

---------------------------------------------------------------------------
(* TenantShardId: make one, format it, parse it back, format it again *)

\* a struct literal TenantShardId { tenant_id, shard_number, shard_count }
MakeTenantShardId ==
    /\ pc = "start"
    /\ \E t \in TenantIds, n \in U8, c \in U8 :
          /\ tsid' = MkTenantShardId(t, n, c)
          /\ args' = <<t, n, c>>
    /\ pc' = "TenantShardId"
    /\ UNCHANGED <<idx, text, suffix, packed, res, reenc, range>>

\* TenantShardId::unsharded(tenant_id)
Unsharded ==
    /\ pc = "start"
    /\ \E t \in TenantIds :
          /\ tsid' = unsharded(t)
          /\ args' = <<t>>
    /\ pc' = "unsharded"
    /\ UNCHANGED <<idx, text, suffix, packed, res, reenc, range>>

\* format!("{tenant_id}"): the textual form of a bare TenantId
TenantIdFmt ==
    /\ pc = "start"
    /\ \E t \in TenantIds :
          /\ text' = TenantId_fmt(t)
          /\ args' = <<t>>
    /\ pc' = "tenant_id_fmt"
    /\ UNCHANGED <<tsid, idx, suffix, packed, res, reenc, range>>

\* format!("{tenant_shard_id}")
Fmt ==
    /\ pc \in {"TenantShardId", "unsharded"}
    /\ text' = TenantShardId_fmt(tsid)
    /\ pc' = "fmt"
    /\ UNCHANGED <<tsid, idx, suffix, packed, res, reenc, range, args>>

\* TenantShardId::from_str(&encoded)
FromStr ==
    /\ pc \in {"fmt", "tenant_id_fmt"}
    /\ res' = TenantShardId_from_str(text)
    /\ pc' = IF pc = "fmt" THEN "from_str" ELSE "from_str_tenant_id"
    /\ UNCHANGED <<tsid, idx, text, suffix, packed, reenc, range, args>>

\* format!("{decoded}") of the value parsed from a bare tenant id
Reencode ==
    /\ pc = "from_str_tenant_id"
    /\ res.ok
    /\ reenc' = TenantShardId_fmt(res.val)
    /\ pc' = "reencode_tenant_id"
    /\ UNCHANGED <<tsid, idx, text, suffix, packed, res, range, args>>

\* ShardIndex::new(shard_number, shard_count).get_suffix() for the shard of a
\* formatted TenantShardId
TenantGetSuffix ==
    /\ pc = "fmt"
    /\ idx' = ShardIndex_new(tsid.shard_number, tsid.shard_count)
    /\ suffix' = get_suffix(idx')
    /\ pc' = "get_suffix"
    /\ UNCHANGED <<tsid, text, packed, res, reenc, range, args>>

NextText ==
    \/ MakeTenantShardId
    \/ Unsharded
    \/ TenantIdFmt
    \/ Fmt
    \/ FromStr
    \/ Reencode

SpecText == InitStart /\ [][NextText]_vars

\* the remote path of a shard: the Display of its id beside the tenant's text
\* with the suffix of its index
NextPath == MakeTenantShardId \/ Unsharded \/ Fmt \/ TenantGetSuffix

SpecPath == InitStart /\ [][NextPath]_vars

---------------------------------------------------------------------------
(* Two TenantShardIds formatted side by side *)

\* the shard bytes of the ids that are compared pairwise
PairBytes == (0..MaxPairByte) \cup {15, 16, 17, U8_MAX - 1, U8_MAX}

\* format!("{other}") of a second struct literal, beside the text of the first
FmtOther ==
    /\ pc = "fmt"
    /\ tsid.shard_number \in PairBytes
    /\ tsid.shard_count \in PairBytes
    /\ \E t \in TenantIds, n \in PairBytes, c \in PairBytes :
          /\ args' = <<t, n, c>>
          /\ reenc' = TenantShardId_fmt(MkTenantShardId(t, n, c))
    /\ pc' = "fmt_other"
    /\ UNCHANGED <<tsid, idx, text, suffix, packed, res, range>>

NextInjective ==
    \/ MakeTenantShardId
    \/ Unsharded
    \/ Fmt
    \/ FromStr
    \/ FmtOther

SpecInjective == InitStart /\ [][NextInjective]_vars

---------------------------------------------------------------------------
(* TenantShardId: the binary encoding.  bincode is not human readable and  *)
(* writes a [u8; N] as its N bytes, with no length before them.            *)

\* bincode::serialize(&tenant_shard_id)
Serialize ==
    /\ pc \in {"TenantShardId", "unsharded"}
    /\ packed' = TenantShardId_serialize(tsid, FALSE).bytes
    /\ pc' = "serialize"
    /\ UNCHANGED <<tsid, idx, text, suffix, res, reenc, range, args>>

\* bincode::deserialize(&encoded)
Deserialize ==
    /\ pc = "serialize"
    /\ res' = TenantShardId_deserialize([bytes |-> packed], FALSE)
    /\ pc' = "deserialize"
    /\ UNCHANGED <<tsid, idx, text, suffix, packed, reenc, range, args>>

NextBinary == MakeTenantShardId \/ Unsharded \/ Serialize \/ Deserialize

SpecBinary == InitStart /\ [][NextBinary]_vars

---------------------------------------------------------------------------
(* ShardIndex: make one, format, parse, take the suffix, pack, unpack *)

\* ShardIndex::new(number, count)
IndexNew ==
    /\ pc = "start"
    /\ \E n \in U8, c \in U8 :
          /\ idx' = ShardIndex_new(n, c)
          /\ args' = <<n, c>>
    /\ pc' = "ShardIndex"
    /\ UNCHANGED <<tsid, text, suffix, packed, res, reenc, range>>

\* ShardIndex::unsharded()
IndexUnsharded ==
    /\ pc = "start"
    /\ idx' = ShardIndex_unsharded
    /\ pc' = "ShardIndex_unsharded"
    /\ UNCHANGED <<tsid, text, suffix, packed, res, reenc, range, args>>

\* format!("{shard_index}")
IndexFmt ==
    /\ pc \in {"ShardIndex", "ShardIndex_unsharded"}
    /\ text' = ShardIndex_fmt(idx)
    /\ pc' = "index_fmt"
    /\ UNCHANGED <<tsid, idx, suffix, packed, res, reenc, range, args>>

\* ShardIndex::from_str(&encoded)
IndexFromStr ==
    /\ pc = "index_fmt"
    /\ res' = ShardIndex_from_str(text)
    /\ pc' = "index_from_str"
    /\ UNCHANGED <<tsid, idx, text, suffix, packed, reenc, range, args>>

\* shard_index.get_suffix()
IndexGetSuffix ==
    /\ pc \in {"ShardIndex", "ShardIndex_unsharded"}
    /\ suffix' = get_suffix(idx)
    /\ pc' = "index_get_suffix"
    /\ UNCHANGED <<tsid, idx, text, packed, res, reenc, range, args>>

\* bincode::serialize(&shard_index)
IndexSerialize ==
    /\ pc \in {"ShardIndex", "ShardIndex_unsharded"}
    /\ packed' = ShardIndex_serialize(idx, FALSE).bytes
    /\ pc' = "index_serialize"
    /\ UNCHANGED <<tsid, idx, text, suffix, res, reenc, range, args>>

\* bincode::deserialize(&encoded)
IndexDeserialize ==
    /\ pc = "index_serialize"
    /\ res' = ShardIndex_deserialize([bytes |-> packed], FALSE)
    /\ pc' = "index_deserialize"
    /\ UNCHANGED <<tsid, idx, text, suffix, packed, reenc, range, args>>

NextIndex ==
    \/ IndexNew
    \/ IndexUnsharded
    \/ IndexFmt
    \/ IndexFromStr
    \/ IndexGetSuffix
    \/ IndexSerialize
    \/ IndexDeserialize

SpecIndex == InitStart /\ [][NextIndex]_vars

---------------------------------------------------------------------------
(* ShardIdentity: the validated constructor *)

\* ShardIdentity::new(number, count, stripe_size)
IdentityNew ==
    /\ pc = "start"
    /\ \E n \in U8, c \in U8, s \in StripeSizes :
          /\ res' = ShardIdentity_new(n, c, s)
          /\ args' = <<n, c, s>>
    /\ pc' = "ShardIdentity_new"
    /\ UNCHANGED <<tsid, idx, text, suffix, packed, reenc, range>>

\* ShardIdentity::unsharded()
IdentityUnsharded ==
    /\ pc = "start"
    /\ res' = Ok(ShardIdentity_unsharded)
    /\ pc' = "ShardIdentity_unsharded"
    /\ UNCHANGED <<tsid, idx, text, suffix, packed, reenc, range, args>>

NextIdentity == IdentityNew \/ IdentityUnsharded

SpecIdentity == InitStart /\ [][NextIdentity]_vars

---------------------------------------------------------------------------
(* tenant_range: the bounds for one tenant, then a membership test *)

\* TenantShardId::tenant_range(tenant_id)
TenantRange ==
    /\ pc = "start"
    /\ \E t \in TenantIds :
          /\ range' = tenant_range(t)
          /\ args' = <<t>>
    /\ pc' = "tenant_range"
    /\ UNCHANGED <<tsid, idx, text, suffix, packed, res, reenc>>

\* range.contains(&x) for any TenantShardId x
Contains ==
    /\ pc = "tenant_range"
    /\ \E t \in TenantIds, n \in U8, c \in U8 :
          /\ tsid' = MkTenantShardId(t, n, c)
          /\ res' = Ok(RangeContains(range, tsid'))
    /\ pc' = "contains"
    /\ UNCHANGED <<idx, text, suffix, packed, reenc, range, args>>

NextRange == TenantRange \/ Contains

SpecRange == InitStart /\ [][NextRange]_vars

---------------------------------------------------------------------------
(* Decoding raw input: strings and buffers that no encoder of this module  *)
(* need have written.  The caller supplies the input, then an operation    *)
(* decodes it.                                                             *)

\* characters just outside the three digit ranges, the separator and a space
NonHexChars ==
    {CH_0 - 1, CH_9 + 1, CH_A - 1, CH_F + 1,
     CH_a - 1, CH_f + 1, DASH, Chr(" ")}

\* s with its lowercase hex digits in upper case
UpperCased(s) ==
    [i \in 1..Len(s) |->
        IF s[i] >= CH_a /\ s[i] <= CH_f
        THEN s[i] - CH_a + CH_A ELSE s[i]]

\* s cut or extended (with the digit 0) to length n
Resized(s, n) == [i \in 1..n |-> IF i <= Len(s) THEN s[i] ELSE CH_0]

\* well-formed strings whose corruptions and other lengths are drawn: each
\* tenant bare, and with the shard suffix of the tests
BaseTexts ==
    {TenantId_fmt(t) : t \in TenantIds}
        \cup {TenantId_fmt(t) \o Str(<<"-", "0", "7", "0", "a">>) : t \in TenantIds}

BaseIndexTexts == {Str(<<"0", "d", "1", "1">>), Str(<<"f", "f", "0", "0">>)}

\* the shard bytes drawn with the tenants other than the example
EdgeBytes == {0, 1, U8_MAX}

\* the caller holds a string meant for TenantShardId: the example tenant with
\* every four-digit suffix, or a base text as it is, in upper case, with
\* another separator, with one or two characters replaced, or of another length
RawText ==
    /\ pc = "start"
    /\ \/ \E n \in U8, c \in U8 :
            text' = TenantId_fmt(ExampleTenantId) \o <<DASH>> \o HexEncode(<<n, c>>)
       \/ \E s \in BaseTexts : text' = s
       \/ \E s \in BaseTexts : text' = UpperCased(s)
       \/ \E s \in BaseTexts : Len(s) = 37 /\ text' = [s EXCEPT ![33] = Chr("x")]
       \/ \E s \in BaseTexts, ch \in NonHexChars :
            \E p \in 1..Len(s), q \in 1..Len(s) :
                text' = [s EXCEPT ![p] = ch, ![q] = ch]
       \/ \E s \in BaseTexts, n \in 0..MaxTextLen : text' = Resized(s, n)
    /\ pc' = "raw_text"
    /\ UNCHANGED <<tsid, idx, suffix, packed, res, reenc, range, args>>

\* the caller holds a string meant for ShardIndex
RawIndexText ==
    /\ pc = "start"
    /\ \/ \E n \in U8, c \in U8 : text' = HexEncode(<<n, c>>)
       \/ \E s \in BaseIndexTexts : text' = UpperCased(s)
       \/ \E s \in BaseIndexTexts, ch \in NonHexChars :
            \E p \in 1..Len(s), q \in 1..Len(s) :
                text' = [s EXCEPT ![p] = ch, ![q] = ch]
       \/ \E s \in BaseIndexTexts, n \in 0..MaxTextLen : text' = Resized(s, n)
    /\ pc' = "raw_index_text"
    /\ UNCHANGED <<tsid, idx, suffix, packed, res, reenc, range, args>>

\* the caller holds bytes: the example tenant with every pair of last bytes,
\* the other tenants with the edge values, or an input that ends early
RawBuffer ==
    /\ pc = "start"
    /\ \/ \E n \in U8, c \in U8 : packed' = ExampleTenantId \o <<n, c>>
       \/ \E t \in TenantIds, n \in EdgeBytes, c \in EdgeBytes :
            packed' = t \o <<n, c>>
       \/ \E n \in 0..17 : packed' = SubSeq(ExampleTenantId \o <<7, 10>>, 1, n)
    /\ pc' = "raw_buffer"
    /\ UNCHANGED <<tsid, idx, text, suffix, res, reenc, range, args>>

\* TenantShardId::from_str(s) for a raw string s
ParseRaw ==
    /\ pc = "raw_text"
    /\ res' = TenantShardId_from_str(text)
    /\ pc' = "parse_raw"
    /\ UNCHANGED <<tsid, idx, text, suffix, packed, reenc, range, args>>

\* TenantShardId::deserialize from a human-readable deserializer holding s
DeserializeStr ==
    /\ pc = "raw_text"
    /\ res' = TenantShardId_deserialize([str |-> text], TRUE)
    /\ pc' = "deserialize_str"
    /\ UNCHANGED <<tsid, idx, text, suffix, packed, reenc, range, args>>

\* ShardIndex::from_str(s) for a raw string s
IndexParseRaw ==
    /\ pc = "raw_index_text"
    /\ res' = ShardIndex_from_str(text)
    /\ pc' = "index_parse_raw"
    /\ UNCHANGED <<tsid, idx, text, suffix, packed, reenc, range, args>>

\* TenantShardId::from(b) for a raw buffer b: [u8; 18]
FromBytes ==
    /\ pc = "raw_buffer"
    /\ Len(packed) = 18
    /\ tsid' = TenantShardId_from(packed)
    /\ pc' = "from_bytes"
    /\ UNCHANGED <<idx, text, suffix, packed, res, reenc, range, args>>

\* TenantShardId::deserialize from a binary deserializer holding b
DeserializeBytes ==
    /\ pc = "raw_buffer"
    /\ res' = TenantShardId_deserialize([bytes |-> packed], FALSE)
    /\ pc' = "deserialize_bytes"
    /\ UNCHANGED <<tsid, idx, text, suffix, packed, reenc, range, args>>

NextDecode ==
    \/ Unsharded
    \/ RawText
    \/ RawIndexText
    \/ RawBuffer
    \/ ParseRaw
    \/ DeserializeStr
    \/ IndexParseRaw
    \/ FromBytes
    \/ DeserializeBytes

SpecDecode == InitStart /\ [][NextDecode]_vars

---------------------------------------------------------------------------
(* What the claims are stated in: hexadecimal text written out digit by    *)
(* digit, independent of the formatter and the decoder modelled above      *)

LowerHexDigits ==
    Str(<<"0", "1", "2", "3", "4", "5", "6", "7",
          "8", "9", "a", "b", "c", "d", "e", "f">>)

UpperHexDigits ==
    Str(<<"0", "1", "2", "3", "4", "5", "6", "7",
          "8", "9", "A", "B", "C", "D", "E", "F">>)

\* two lowercase zero-padded hex digits of a byte
TwoHexDigits(b) ==
    <<LowerHexDigits[(b \div 16) + 1], LowerHexDigits[(b % 16) + 1]>>

IsHexDigit(ch) ==
    \E v \in 1..16 : ch = LowerHexDigits[v] \/ ch = UpperHexDigits[v]

DigitValue(ch) ==
    (CHOOSE v \in 1..16 : ch = LowerHexDigits[v] \/ ch = UpperHexDigits[v]) - 1

\* the byte two hex digits denote
ByteOfDigits(hi, lo) == DigitValue(hi) * 16 + DigitValue(lo)

\* the tenant of the tests in its textual form
ExampleTenantText ==
    Str(<<"1", "f", "3", "5", "9", "d", "d", "6", "2", "5", "e", "5", "1", "9",
          "a", "1", "a", "4", "e", "8", "d", "7", "5", "0", "9", "6", "9", "0",
          "f", "6", "f", "c">>)

\* a modern shard pair: count >= 1 and number < count
ValidShard(x) == x.shard_count >= 1 /\ x.shard_number < x.shard_count

---------------------------------------------------------------------------
(* C1 *)

\* C1: for every tenant T and shard pair (n, c) with c >= 1 and n < c, the
\* Display of TenantShardId{T, n, c} is T's 32-character hex form, then '-',
\* then n and c as two lowercase zero-padded hex digits each, 37 characters in
\* all, and from_str of that string returns the original value.
C1_SuffixedRoundTrip ==
    /\ (pc \in {"fmt", "from_str"} /\ ValidShard(tsid)) =>
          /\ Len(text) = 37
          /\ Len(TenantId_fmt(tsid.tenant_id)) = 32
          /\ text = TenantId_fmt(tsid.tenant_id) \o Str(<<"-">>)
                       \o TwoHexDigits(tsid.shard_number)
                       \o TwoHexDigits(tsid.shard_count)
    /\ (pc = "from_str" /\ ValidShard(tsid)) => res = Ok(tsid)

\* the example of tests::tenant_shard_id_string has been formatted and parsed
C1_Witness ==
    /\ pc = "from_str"
    /\ tsid = MkTenantShardId(ExampleTenantId, 7, 10)
    /\ text = ExampleTenantText \o Str(<<"-", "0", "7", "0", "a">>)
    /\ res = Ok(tsid)

---------------------------------------------------------------------------
(* C2 *)

\* C2: for every tenant T, unsharded(T) formats to exactly T's 32-character
\* textual form (forward compatibility); and from_str of T's textual form
\* succeeds with {T, 0, 0}, which formats again to the same 32 characters
\* (backward compatibility).
C2_LegacyCompat ==
    /\ (pc = "fmt" /\ Len(args) = 1) =>
          /\ tsid.tenant_id = args[1]
          /\ text = TenantId_fmt(args[1])
          /\ Len(text) = 32
    /\ pc \in {"from_str_tenant_id", "reencode_tenant_id"} =>
          /\ text = TenantId_fmt(args[1])
          /\ res = Ok([tenant_id |-> args[1], shard_number |-> 0, shard_count |-> 0])
    /\ pc = "reencode_tenant_id" =>
          /\ reenc = text
          /\ Len(reenc) = 32

\* the example tenant's text has been parsed and formatted again
C2_Witness ==
    /\ pc = "reencode_tenant_id"
    /\ args = <<ExampleTenantId>>
    /\ text = ExampleTenantText
    /\ res.val.shard_count = 0
    /\ reenc = ExampleTenantText

\* unsharded(T) of the example tenant has been formatted
C2_ForwardWitness ==
    /\ pc = "fmt"
    /\ args = <<ExampleTenantId>>
    /\ text = ExampleTenantText

---------------------------------------------------------------------------
(* C3 *)

\* C3: for every TenantShardId x, legacy or not, the binary serialization is
\* exactly 18 bytes: the 16 bytes of x.tenant_id, then x.shard_number, then
\* x.shard_count; and binary deserialization of them returns x.
C3_BinaryRoundTrip ==
    /\ pc \in {"serialize", "deserialize"} =>
          /\ Len(packed) = 18
          /\ \A i \in 1..16 : packed[i] = tsid.tenant_id[i]
          /\ packed[17] = tsid.shard_number
          /\ packed[18] = tsid.shard_count
    /\ pc = "deserialize" => res = Ok(tsid)

\* the legacy example of tests::tenant_shard_id_legacy_binary has been
\* serialized, with its trailing 00 00, and deserialized
C3_Witness ==
    /\ pc = "deserialize"
    /\ tsid = MkTenantShardId(ExampleTenantId, 0, 0)
    /\ packed = ExampleTenantId \o <<0, 0>>
    /\ res = Ok(tsid)

---------------------------------------------------------------------------
(* C4 *)

\* C4: ShardIdentity::new(number, count, stripe_size) checks in order, the
\* first failure winning: InvalidCount if count = 0, else InvalidNumber if
\* number >= count, else InvalidStripeSize if stripe_size = 0, else Ok with
\* the arguments and the version-1 layout.
C4_ValidationOrder ==
    pc = "ShardIdentity_new" =>
        LET number == args[1]
            count == args[2]
            stripe_size == args[3]
        IN  /\ count = 0 => res = Err("InvalidCount")
            /\ (count # 0 /\ number >= count) => res = Err("InvalidNumber")
            /\ (count # 0 /\ number < count /\ stripe_size = 0) =>
                  res = Err("InvalidStripeSize")
            /\ (count # 0 /\ number < count /\ stripe_size # 0) =>
                  res = Ok([layout |-> 1, number |-> number, count |-> count,
                            stripe_size |-> stripe_size])

\* new(254, 255, 1) has succeeded
C4_Witness ==
    /\ pc = "ShardIdentity_new"
    /\ args = <<254, 255, 1>>
    /\ res.ok
    /\ res.val.number = 254

---------------------------------------------------------------------------
(* C5 *)

\* C5: under the derived ordering, the inclusive range tenant_range(T), from
\* (T, 0, 0) to (T, 255, 255), contains every TenantShardId whose tenant is T
\* and none whose tenant differs from T.
C5_TenantRange ==
    /\ pc \in {"tenant_range", "contains"} =>
          /\ range.start = MkTenantShardId(args[1], 0, 0)
          /\ range.end = MkTenantShardId(args[1], 255, 255)
    /\ pc = "contains" => (res.val <=> tsid.tenant_id = args[1])

\* the last shard id of the tenant is found in its range
C5_Witness ==
    /\ pc = "contains"
    /\ tsid = MkTenantShardId(args[1], 255, 255)
    /\ res.val

\* a shard id of another tenant is found outside the range
C5_OtherTenantWitness ==
    /\ pc = "contains"
    /\ tsid.tenant_id # args[1]
    /\ ~res.val

---------------------------------------------------------------------------
(* C6 *)

\* the value a construction path has just produced, if it produced one
Produced ==
    IF pc \in {"unsharded", "from_bytes"} THEN {tsid}
    ELSE IF pc \in {"parse_raw", "deserialize_str", "deserialize_bytes"} /\ res.ok
    THEN {res.val}
    ELSE {}

\* C6 as claimed: every TenantShardId produced by unsharded, by from_str on
\* an accepted string, by From<[u8; 18]> on any buffer, or by textual or
\* binary deserialization has shard_number = 0 whenever shard_count = 0.
C6_LegacyInvariantOnAllPaths ==
    \A x \in Produced : x.shard_count = 0 => x.shard_number = 0

\* C6 as amended: unsharded and the parse of a 32-character string produce
\* shard_number = 0 and shard_count = 0; the parse of a 37-character string,
\* From<[u8; 18]> and binary deserialization copy the two shard bytes of
\* their input unchecked, so that the result has shard_number = 0 with
\* shard_count = 0 exactly when the input has.
C6_LegacyInvariantWhereInputHasIt ==
    /\ pc = "unsharded" => (tsid.shard_number = 0 /\ tsid.shard_count = 0)
    /\ (pc \in {"parse_raw", "deserialize_str"} /\ res.ok) =>
          /\ Len(text) \in {32, 37}
          /\ Len(text) = 32 =>
                (res.val.shard_number = 0 /\ res.val.shard_count = 0)
          /\ Len(text) = 37 =>
                /\ res.val.shard_number = ByteOfDigits(text[34], text[35])
                /\ res.val.shard_count = ByteOfDigits(text[36], text[37])
    /\ pc = "from_bytes" =>
          (tsid.shard_number = packed[17] /\ tsid.shard_count = packed[18])
    /\ (pc = "deserialize_bytes" /\ res.ok) =>
          (res.val.shard_number = packed[17] /\ res.val.shard_count = packed[18])

\* a buffer ending 05 00 has been converted: shard_count = 0, shard_number = 5
C6_Witness ==
    /\ pc = "from_bytes"
    /\ packed = ExampleTenantId \o <<5, 0>>
    /\ tsid.shard_count = 0
    /\ tsid.shard_number = 5

\* the string <tenant>-0500 has been parsed to shard_count = 0, shard_number = 5
C6_TextWitness ==
    /\ pc = "parse_raw"
    /\ text = ExampleTenantText \o Str(<<"-", "0", "5", "0", "0">>)
    /\ res.ok
    /\ res.val.shard_count = 0
    /\ res.val.shard_number = 5

---------------------------------------------------------------------------
(* C7 *)

\* C7: TenantShardId::from_str returns InvalidStringLength for every input
\* whose length is neither 32 nor 37, and ShardIndex::from_str for every input
\* whose length is not 4; for an input of an accepted length, a non-hex
\* character in a tenant-digit or shard-digit position makes the parse return
\* a hex-decode error and no value.
C7_MalformedTextRejected ==
    /\ pc = "parse_raw" =>
          /\ Len(text) \notin {32, 37} => res = Err([kind |-> "InvalidStringLength"])
          /\ (/\ Len(text) \in {32, 37}
              /\ \E i \in (1..32) \cup (34..Len(text)) : ~IsHexDigit(text[i])) =>
                (~res.ok /\ res.err.kind = "InvalidHexCharacter")
    /\ pc = "index_parse_raw" =>
          /\ Len(text) # 4 => res = Err([kind |-> "InvalidStringLength"])
          /\ (Len(text) = 4 /\ \E i \in 1..4 : ~IsHexDigit(text[i])) =>
                (~res.ok /\ res.err.kind = "InvalidHexCharacter")

\* a 37-character string with a good tenant and a non-hex shard digit has been
\* refused
C7_Witness ==
    /\ pc = "parse_raw"
    /\ Len(text) = 37
    /\ \A i \in 1..32 : IsHexDigit(text[i])
    /\ ~IsHexDigit(text[36])
    /\ ~res.ok
    /\ res.err.kind = "InvalidHexCharacter"

\* a string of 36 characters has been refused for its length
C7_LengthWitness ==
    /\ pc = "parse_raw"
    /\ Len(text) = 36
    /\ res = Err([kind |-> "InvalidStringLength"])

---------------------------------------------------------------------------
(* C8 *)

\* C8: for every ShardIndex{number, count}, the unsharded (0, 0) included, the
\* Display is the four lowercase hex characters NNCC and from_str of it
\* returns the original; the binary serialization is the two bytes
\* [number, count] and binary deserialization of them returns the original.
C8_IndexRoundTrip ==
    /\ pc \in {"index_fmt", "index_from_str"} =>
          /\ Len(text) = 4
          /\ text = TwoHexDigits(idx.shard_number) \o TwoHexDigits(idx.shard_count)
    /\ pc = "index_from_str" => res = Ok(idx)
    /\ pc \in {"index_serialize", "index_deserialize"} =>
          packed = <<idx.shard_number, idx.shard_count>>
    /\ pc = "index_deserialize" => res = Ok(idx)

\* the example of tests::shard_index_human_encoding: 0d11 written and read
C8_Witness ==
    /\ pc = "index_from_str"
    /\ idx = [shard_number |-> 13, shard_count |-> 17]
    /\ text = Str(<<"0", "d", "1", "1">>)
    /\ res = Ok(idx)

\* the example of tests::shard_index_binary_encoding: [0x0d, 0x11]
C8_BinaryWitness ==
    /\ pc = "index_deserialize"
    /\ packed = <<13, 17>>
    /\ res = Ok([shard_number |-> 13, shard_count |-> 17])

---------------------------------------------------------------------------
(* C9 *)

\* C9: get_suffix returns the empty string if and only if the index is
\* unsharded (shard_number = 0 and shard_count = 0); for every other index it
\* returns exactly 5 characters: '-', then shard_number and shard_count as two
\* lowercase zero-padded hex digits each.
C9_Suffix ==
    pc = "index_get_suffix" =>
        /\ is_unsharded(idx) <=> (idx.shard_number = 0 /\ idx.shard_count = 0)
        /\ suffix = <<>> <=> (idx.shard_number = 0 /\ idx.shard_count = 0)
        /\ ~(idx.shard_number = 0 /\ idx.shard_count = 0) =>
              /\ Len(suffix) = 5
              /\ suffix = Str(<<"-">>) \o TwoHexDigits(idx.shard_number)
                              \o TwoHexDigits(idx.shard_count)

\* an index with a zero count and a nonzero number gets the full suffix
C9_Witness ==
    /\ pc = "index_get_suffix"
    /\ idx = [shard_number |-> 5, shard_count |-> 0]
    /\ suffix = Str(<<"-", "0", "5", "0", "0">>)

\* the unsharded index gets the empty suffix
C9_UnshardedWitness ==
    /\ pc = "index_get_suffix"
    /\ idx = [shard_number |-> 0, shard_count |-> 0]
    /\ suffix = <<>>

---------------------------------------------------------------------------
(* C10 *)

\* C10: for every tenant T and every ShardIndex i, T's 32-character text
\* followed by i.get_suffix() is exactly the Display of
\* TenantShardId{T, i.shard_number, i.shard_count}.
C10_SuffixCompletesTenantText ==
    pc = "get_suffix" =>
        /\ idx.shard_number = tsid.shard_number
        /\ idx.shard_count = tsid.shard_count
        /\ TenantId_fmt(tsid.tenant_id) \o suffix = text

---------------------------------------------------------------------------
(* C11 *)

\* the legacy invariant of the data model
LegacyInvariant(x) == x.shard_count = 0 => x.shard_number = 0

\* the second id of a pair, as the struct literal was given it
OtherId == MkTenantShardId(args[1], args[2], args[3])

\* C11: Display is injective on the TenantShardIds that satisfy the legacy
\* invariant (shard_count = 0 implies shard_number = 0): two such values with
\* equal texts are equal; in particular (T, 0, 0) and (T, 0, 1) have different
\* texts, and every such value parses back to itself.
C11_DisplayInjective ==
    /\ (pc = "fmt_other" /\ LegacyInvariant(tsid) /\ LegacyInvariant(OtherId)) =>
          /\ text = reenc => tsid = OtherId
          /\ (/\ tsid.tenant_id = OtherId.tenant_id
              /\ tsid.shard_number = 0 /\ OtherId.shard_number = 0
              /\ tsid.shard_count = 0 /\ OtherId.shard_count = 1) => text # reenc
    /\ (pc = "from_str" /\ LegacyInvariant(tsid)) => res = Ok(tsid)

\* the legacy id and the single-shard id of the example tenant have been
\* formatted, to the bare text and to the text with the suffix -0001
C11_Witness ==
    /\ pc = "fmt_other"
    /\ tsid = MkTenantShardId(ExampleTenantId, 0, 0)
    /\ OtherId = MkTenantShardId(ExampleTenantId, 0, 1)
    /\ text = ExampleTenantText
    /\ reenc = ExampleTenantText \o Str(<<"-", "0", "0", "0", "1">>)

\* the single-shard id of the example tenant has been parsed back to itself
C11_SingleShardWitness ==
    /\ pc = "from_str"
    /\ tsid = MkTenantShardId(ExampleTenantId, 0, 1)
    /\ res = Ok(tsid)

\* outside the invariant two different ids do share a text: (T, 1, 0) and
\* (T, 0, 0) are both written as the bare tenant
C11_CollisionOutsideInvariant ==
    /\ pc = "fmt_other"
    /\ tsid = MkTenantShardId(ExampleTenantId, 1, 0)
    /\ OtherId = MkTenantShardId(ExampleTenantId, 0, 0)
    /\ text = reenc

===========================================================================
